---- MODULE Spec2Model ----
(***************************************************************************)
(* bt-presence: collective presence detection of bluetooth devices by      *)
(* periodically running l2ping against every registered MAC address.       *)
(* The model follows class btPresence of src/src/index.ts: its fields are  *)
(* the variables, its methods and the callbacks it registers on child      *)
(* processes and timers are the actions.                                   *)
(***************************************************************************)
EXTENDS Integers, Sequences, FiniteSets, Bags

(* ------------------------------ bounds -------------------------------- *)

\* l2ping child processes tracked at the same time
MaxProcs == 2
\* independent scan chains (pending timers plus pending `which` lookups)
MaxChains == 2
\* elements of an array given to addDevices / removeDevices / setDevices
MaxArgLen == 2
\* registry size
MaxDevices == 4

(* ------------------------------ state --------------------------------- *)

VARIABLES
    btDevicesToPing,    \* index.ts:21  MAC addresses to ping
    btDevicesPresent,   \* index.ts:24  MAC addresses of detected devices
    scanIntervalSecs,   \* index.ts:27
    isL2PingAvailable,  \* index.ts:30
    timer,              \* index.ts:33  state of the Timeout this.timer refers to
    reportFirstResult,  \* index.ts:36
    runningPings,       \* index.ts:39  the tracked ChildProcess objects
    l2pingOptions,      \* index.ts:42
    otherTimers,        \* pending scan timers this.timer no longer refers to
    pendingWhich,       \* `which l2ping` lookups that have not exited yet
    fatal,              \* an event handler threw: the host process is gone
    emitted,            \* the events emitted by the last step, in order
    stopped,            \* stop() was called and start() has not been since
    run,                \* what happened since the last start(), see Start
    lastPositive,       \* the addresses whose last processed result was positive
    liveProcs           \* the l2ping processes spawned and not closed yet: a
                        \* bag of their addresses

vars == <<btDevicesToPing, btDevicesPresent, scanIntervalSecs, isL2PingAvailable,
          timer, reportFirstResult, runningPings, l2pingOptions, otherTimers,
          pendingWhich, fatal, emitted, stopped, run, lastPositive, liveProcs>>

(* --------------------------- optional values --------------------------- *)

\* an optional argument: <<>> is undefined, <<v>> is the value v
Undefined == <<>>
Some(v) == <<v>>
IsDefined(o) == o # <<>>
ValueOf(o) == o[1]

(* --------------------------- lodash helpers ---------------------------- *)

Range(s) == {s[i] : i \in DOMAIN s}

\* String.prototype.toLowerCase on one character of the model's alphabet
toLowerChar(c) ==
    CASE c = "A" -> "a" [] c = "B" -> "b" [] c = "C" -> "c" [] c = "D" -> "d"
      [] OTHER -> c

\* _.toLower: a MAC address is a sequence of characters
toLower(s) == [i \in DOMAIN s |-> toLowerChar(s[i])]

\* _.map(array, _.toLower)
mapToLower(arr) == [i \in DOMAIN arr |-> toLower(arr[i])]

\* _.concat(array, values)
concat(arr, vals) == arr \o vals

\* _.uniq: keeps the first occurrence of every element, in order
uniq(arr) ==
    LET F[i \in 0..Len(arr)] ==
            IF i = 0 THEN <<>>
            ELSE LET kept == F[i - 1]
                 IN  IF arr[i] \in Range(kept) THEN kept ELSE Append(kept, arr[i])
    IN F[Len(arr)]

\* _.pullAll(array, values): removes every occurrence of every value
pullAll(arr, vals) == SelectSeq(arr, LAMBDA x : x \notin Range(vals))

\* _.pull(array, value)
pull(arr, v) == SelectSeq(arr, LAMBDA x : x # v)

(* --------------------------- child processes --------------------------- *)

\* spawn('l2ping', [..., macAddress]) (index.ts:211): a ChildProcess. killed is
\* its .killed field; reported records that a 'data' handler has called back.
spawn(macAddress) == [address |-> macAddress, killed |-> FALSE, reported |-> FALSE]

\* pingBluetoothDevice without the push onto runningPings
pingBluetoothDevice_NoTrack(pings, macAddress) == pings

\* pingBluetoothDevice (index.ts:209-214): spawn l2ping for macAddress and
\* push the process on runningPings
pingBluetoothDevice(pings, macAddress) == Append(pings, spawn(macAddress))

\* _.forEach(this.btDevicesToPing, ...) of scanForAllDevices (index.ts:154-163):
\* one probe per registered device, in registry order; nothing when empty
forEachDevice(devices, pings) ==
    LET F[i \in 0..Len(devices)] ==
            IF i = 0 THEN pings ELSE pingBluetoothDevice(F[i - 1], devices[i])
    IN F[Len(devices)]

\* the bag of the elements of a sequence
bagOf(arr) ==
    LET F[i \in 0..Len(arr)] ==
            IF i = 0 THEN EmptyBag ELSE F[i - 1] (+) SetToBag({arr[i]})
    IN F[Len(arr)]

(* ------------------------------ registry ------------------------------ *)

\* addDevices without the case fold
addDevices_NoLower(devices, arg) ==
    IF IsDefined(arg)
    THEN uniq(concat(devices, ValueOf(arg)))
    ELSE devices

\* addDevices (index.ts:79-84)
addDevices(devices, arg) ==
    IF IsDefined(arg)
    THEN uniq(concat(devices, mapToLower(ValueOf(arg))))
    ELSE devices

\* removeDevices (index.ts:90-95)
removeDevices(devices, arg) ==
    IF IsDefined(arg)
    THEN uniq(pullAll(devices, mapToLower(ValueOf(arg))))
    ELSE devices

\* setDevices adding to the registry instead of replacing it
setDevices_Additive(devices, arg) ==
    uniq(concat(devices, mapToLower(IF IsDefined(arg) THEN ValueOf(arg) ELSE <<>>)))

\* setDevices (index.ts:108-111); _.map(undefined, f) is []
setDevices(devices, arg) ==
    uniq(mapToLower(IF IsDefined(arg) THEN ValueOf(arg) ELSE <<>>))

RegistryFrame ==
    UNCHANGED <<btDevicesPresent, scanIntervalSecs, isL2PingAvailable, timer,
                reportFirstResult, runningPings, l2pingOptions, otherTimers,
                pendingWhich, fatal, stopped, run, lastPositive, liveProcs>>

AddDevices(arg) ==
    /\ btDevicesToPing' = addDevices(btDevicesToPing, arg)
    /\ emitted' = <<>>
    /\ RegistryFrame

RemoveDevices(arg) ==
    /\ btDevicesToPing' = removeDevices(btDevicesToPing, arg)
    /\ emitted' = <<>>
    /\ RegistryFrame

SetDevices(arg) ==
    /\ btDevicesToPing' = setDevices(btDevicesToPing, arg)
    /\ emitted' = <<>>
    /\ RegistryFrame

(* ---------------------------- configuration --------------------------- *)

\* `x ? x : d` on an optional number (index.ts:126-127): undefined and 0 are
\* falsy, every other number is truthy
truthy(x) == IsDefined(x) /\ ValueOf(x) # 0

\* every falsy field keeps the value stored before
setPingOptions_KeepsPrevious(options) ==
    [count |-> IF truthy(options.count) THEN ValueOf(options.count)
               ELSE l2pingOptions.count,
     timeoutSecs |-> IF truthy(options.timeoutSecs) THEN ValueOf(options.timeoutSecs)
                     ELSE l2pingOptions.timeoutSecs]

\* setPingOptions validating the range: only positive numbers are accepted
setPingOptions_PositiveOnly(options) ==
    [count |-> IF IsDefined(options.count) /\ ValueOf(options.count) > 0
               THEN ValueOf(options.count) ELSE 1,
     timeoutSecs |-> IF IsDefined(options.timeoutSecs) /\ ValueOf(options.timeoutSecs) > 0
                     THEN ValueOf(options.timeoutSecs) ELSE 5]

\* newOptions of setPingOptions (index.ts:125-128)
setPingOptions(options) ==
    [count |-> IF truthy(options.count) THEN ValueOf(options.count) ELSE 1,
     timeoutSecs |-> IF truthy(options.timeoutSecs) THEN ValueOf(options.timeoutSecs)
                     ELSE 5]

\* setPingOptions (index.ts:124-131). Without an object, reading
\* options.count throws a TypeError to the caller before anything is assigned.
SetPingOptions(arg) ==
    /\ l2pingOptions' = IF IsDefined(arg) THEN setPingOptions(ValueOf(arg))
                        ELSE l2pingOptions
    /\ emitted' = <<>>
    /\ UNCHANGED <<btDevicesToPing, btDevicesPresent, scanIntervalSecs,
                   isL2PingAvailable, timer, reportFirstResult, runningPings,
                   otherTimers, pendingWhich, fatal, stopped, run, lastPositive,
                   liveProcs>>

\* getPingOptions (index.ts:116-118)
getPingOptions == l2pingOptions

\* setIntervalSeconds (index.ts:144-147)
SetIntervalSeconds(secs) ==
    /\ scanIntervalSecs' = IF IsDefined(secs) THEN ValueOf(secs) ELSE scanIntervalSecs
    /\ emitted' = <<>>
    /\ UNCHANGED <<btDevicesToPing, btDevicesPresent, isL2PingAvailable, timer,
                   reportFirstResult, runningPings, l2pingOptions, otherTimers,
                   pendingWhich, fatal, stopped, run, lastPositive, liveProcs>>

(* ------------------------------ scheduler ------------------------------ *)

\* the devices not on the presence list
notPresent(devices) ==
    SelectSeq(devices, LAMBDA d : d \notin Range(btDevicesPresent))

\* scanForAllDevices probing only the devices not found yet
scanForAllDevices_SkipsPresent(t, o) ==
    /\ runningPings' = forEachDevice(notPresent(btDevicesToPing), runningPings)
    /\ liveProcs' = liveProcs (+) bagOf(notPresent(btDevicesToPing))
    /\ timer' = "pending"
    /\ otherTimers' = o + (IF t = "pending" THEN 1 ELSE 0)

\* scanForAllDevices re-arming only when it had a device to ping
scanForAllDevices_IdleWhenEmpty(t, o) ==
    /\ runningPings' = forEachDevice(btDevicesToPing, runningPings)
    /\ liveProcs' = liveProcs (+) bagOf(btDevicesToPing)
    /\ timer' = IF btDevicesToPing = <<>> THEN "cleared" ELSE "pending"
    /\ otherTimers' = o + (IF t = "pending" THEN 1 ELSE 0)

\* scanForAllDevices (index.ts:153-167), called with this.timer in state t and
\* o other scan timers pending: dispatches the probes, then re-arms. The
\* Timeout this.timer referred to stays pending if it was, unreferenced.
scanForAllDevices(t, o) ==
    /\ runningPings' = forEachDevice(btDevicesToPing, runningPings)
    /\ liveProcs' = liveProcs (+) bagOf(btDevicesToPing)
    /\ timer' = "pending"
    /\ otherTimers' = o + (IF t = "pending" THEN 1 ELSE 0)

\* index.ts:176-178: the latch after start(arg)
latchAfterStart(latch, arg) == IF IsDefined(arg) THEN ValueOf(arg) ELSE latch

\* start (index.ts:174-185). run becomes "default" after start() and
\* "explicit" after start(true) or start(false), until a result is processed.
Start(arg) ==
    /\ reportFirstResult' = latchAfterStart(reportFirstResult, arg)
    /\ IF isL2PingAvailable
       THEN /\ scanForAllDevices(timer, otherTimers)
            /\ UNCHANGED pendingWhich
       ELSE /\ pendingWhich' = pendingWhich + 1
            /\ UNCHANGED <<runningPings, liveProcs, timer, otherTimers>>
    /\ stopped' = FALSE
    /\ run' = IF IsDefined(arg) THEN "explicit" ELSE "default"
    /\ emitted' = <<>>
    /\ UNCHANGED <<btDevicesToPing, btDevicesPresent, scanIntervalSecs,
                   isL2PingAvailable, l2pingOptions, fatal, lastPositive>>

\* the 'exit' handler going on to scan whatever the exit code
WhichExit_ScansAnyway(ok) ==
    /\ pendingWhich > 0
    /\ pendingWhich' = pendingWhich - 1
    /\ isL2PingAvailable' = ok
    /\ scanForAllDevices(timer, otherTimers)
    /\ emitted' = <<>>
    /\ UNCHANGED <<btDevicesToPing, btDevicesPresent, scanIntervalSecs,
                   reportFirstResult, l2pingOptions, stopped, run, fatal,
                   lastPositive>>

\* the 'exit' handler of checkForL2Ping (index.ts:63-72); ok is code === 0
WhichExit(ok) ==
    /\ pendingWhich > 0
    /\ pendingWhich' = pendingWhich - 1
    /\ isL2PingAvailable' = ok
    /\ IF isL2PingAvailable'
       THEN /\ scanForAllDevices(timer, otherTimers)
            /\ UNCHANGED fatal
       ELSE /\ fatal' = TRUE
            /\ UNCHANGED <<runningPings, liveProcs, timer, otherTimers>>
    /\ emitted' = <<>>
    /\ UNCHANGED <<btDevicesToPing, btDevicesPresent, scanIntervalSecs,
                   reportFirstResult, l2pingOptions, stopped, run, lastPositive>>

\* the 'error' handler of checkForL2Ping (index.ts:58-61): rethrows
WhichError ==
    /\ pendingWhich > 0
    /\ pendingWhich' = pendingWhich - 1
    /\ fatal' = TRUE
    /\ emitted' = <<>>
    /\ UNCHANGED <<btDevicesToPing, btDevicesPresent, scanIntervalSecs,
                   isL2PingAvailable, timer, reportFirstResult, runningPings,
                   l2pingOptions, otherTimers, stopped, run, lastPositive,
                   liveProcs>>

\* the setTimeout callback of index.ts:166 fires: own is TRUE when the
\* Timeout that fires is the one this.timer refers to
TimerFire(own) ==
    /\ IF own THEN timer = "pending" ELSE otherTimers > 0
    /\ IF own
       THEN scanForAllDevices("fired", otherTimers)
       ELSE scanForAllDevices(timer, otherTimers - 1)
    /\ emitted' = <<>>
    /\ UNCHANGED <<btDevicesToPing, btDevicesPresent, scanIntervalSecs,
                   isL2PingAvailable, reportFirstResult, l2pingOptions,
                   pendingWhich, fatal, stopped, run, lastPositive>>

\* stop() without the kill
kill_Skipped(p) == p

\* index.ts:197-199: if (!p.killed) p.kill()
kill(p) == IF ~p.killed THEN [p EXCEPT !.killed = TRUE] ELSE p

\* stop() forgetting the devices found so far
Stop_ForgetsPresent ==
    /\ IF timer # "undefined"
       THEN /\ timer' = IF timer = "pending" THEN "cleared" ELSE timer
            /\ runningPings' = [i \in DOMAIN runningPings |-> kill(runningPings[i])]
       ELSE UNCHANGED <<timer, runningPings>>
    /\ btDevicesPresent' = <<>>
    /\ stopped' = TRUE
    /\ emitted' = <<>>
    /\ UNCHANGED <<btDevicesToPing, scanIntervalSecs, isL2PingAvailable,
                   reportFirstResult, l2pingOptions, otherTimers, pendingWhich,
                   fatal, run, lastPositive, liveProcs>>

\* stop (index.ts:190-202)
Stop ==
    /\ IF timer # "undefined"
       THEN /\ timer' = IF timer = "pending" THEN "cleared" ELSE timer
            /\ runningPings' = [i \in DOMAIN runningPings |-> kill(runningPings[i])]
       ELSE UNCHANGED <<timer, runningPings>>
    /\ stopped' = TRUE
    /\ emitted' = <<>>
    /\ UNCHANGED <<btDevicesToPing, btDevicesPresent, scanIntervalSecs,
                   isL2PingAvailable, reportFirstResult, l2pingOptions,
                   otherTimers, pendingWhich, fatal, run, lastPositive, liveProcs>>

(* ------------------------------ aggregator ----------------------------- *)

\* updatePresent ignoring negative results
updatePresent_KeepsOnNegative(present, result) ==
    IF result.isPresent
    THEN uniq(concat(present, <<result.address>>))
    ELSE present

\* index.ts:249-254: the presence list after a result
updatePresent(present, result) ==
    IF result.isPresent
    THEN uniq(concat(present, <<result.address>>))
    ELSE pull(present, result.address)

\* aggregateEvents with && for || in the empty branch
aggregateEvents_AndLatch(was, now, latch, address) ==
    IF now
    THEN IF ~was \/ latch
         THEN <<[type |-> "present", address |-> address]>> ELSE <<>>
    ELSE IF was /\ latch
         THEN <<[type |-> "not-present", address |-> address]>> ELSE <<>>

\* aggregateEvents reporting every positive result
aggregateEvents_EveryPositive(was, now, latch, address) ==
    IF now
    THEN <<[type |-> "present", address |-> address]>>
    ELSE IF was \/ latch
         THEN <<[type |-> "not-present", address |-> address]>> ELSE <<>>

\* index.ts:256-265: the aggregate events of a result, given the presence
\* before (was) and after (now) and the latch
aggregateEvents(was, now, latch, address) ==
    IF now
    THEN IF ~was \/ latch
         THEN <<[type |-> "present", address |-> address]>> ELSE <<>>
    ELSE IF was \/ latch
         THEN <<[type |-> "not-present", address |-> address]>> ELSE <<>>

\* the latch never cleared
latchAfterResult_Kept(latch) == latch

\* index.ts:267: the latch after a result
latchAfterResult(latch) == FALSE

\* EventEmitter.emit called while this.btDevicesPresent is `seen`: listeners
\* run synchronously inside the call, so that is the list they find
emit(events, seen) ==
    [k \in DOMAIN events |->
        IF events[k].type = "ping-result"
        THEN [type |-> events[k].type, result |-> events[k].result, seen |-> seen]
        ELSE [type |-> events[k].type, address |-> events[k].address, seen |-> seen]]

\* onPingResult emitting 'ping-result' after the update of the list
onPingResult_EmitAfterUpdate(result) ==
    LET devicesPresentAtLastCheck == Len(btDevicesPresent) > 0
        present == updatePresent(btDevicesPresent, result)
    IN /\ btDevicesPresent' = present
       /\ emitted' = emit(<<[type |-> "ping-result", result |-> result]>>, present)
                     \o emit(aggregateEvents(devicesPresentAtLastCheck,
                                             Len(present) > 0,
                                             reportFirstResult, result.address),
                             present)
       /\ reportFirstResult' = latchAfterResult(reportFirstResult)
       /\ run' = "consumed"
       /\ lastPositive' = IF result.isPresent
                          THEN lastPositive \cup {result.address}
                          ELSE lastPositive \ {result.address}

\* onPingResult (index.ts:243-268): 'ping-result' is emitted at line 247, the
\* list is assigned at 250-254, the aggregate events are emitted at 257-265
onPingResult(result) ==
    LET devicesPresentAtLastCheck == Len(btDevicesPresent) > 0
        present == updatePresent(btDevicesPresent, result)
    IN /\ btDevicesPresent' = present
       /\ emitted' = emit(<<[type |-> "ping-result", result |-> result]>>,
                          btDevicesPresent)
                     \o emit(aggregateEvents(devicesPresentAtLastCheck,
                                             Len(present) > 0,
                                             reportFirstResult, result.address),
                             present)
       /\ reportFirstResult' = latchAfterResult(reportFirstResult)
       /\ run' = "consumed"
       /\ lastPositive' = IF result.isPresent
                          THEN lastPositive \cup {result.address}
                          ELSE lastPositive \ {result.address}

(* -------------------------------- probes ------------------------------- *)

ProbeFrame ==
    UNCHANGED <<btDevicesToPing, scanIntervalSecs, isL2PingAvailable, timer,
                l2pingOptions, otherTimers, pendingWhich, stopped>>

\* 'data' handlers that stay silent once stop() has killed the process
StreamData_NotAfterKill(i, isPresent) ==
    /\ i \in DOMAIN runningPings
    /\ ~runningPings[i].killed
    /\ onPingResult([address |-> runningPings[i].address, isPresent |-> isPresent])
    /\ runningPings' = [runningPings EXCEPT ![i].reported = TRUE]
    /\ ProbeFrame
    /\ UNCHANGED <<fatal, liveProcs>>

\* the stdout (isPresent) and stderr (~isPresent) 'data' handlers that
\* pingBluetoothDevice registers (index.ts:222-229) on the i-th tracked
\* process: every chunk of output calls the callback
StreamData(i, isPresent) ==
    /\ i \in DOMAIN runningPings
    /\ onPingResult([address |-> runningPings[i].address, isPresent |-> isPresent])
    /\ runningPings' = [runningPings EXCEPT ![i].reported = TRUE]
    /\ ProbeFrame
    /\ UNCHANGED <<fatal, liveProcs>>

\* _.remove(this.runningPings, p => p.pid == process.pid) (index.ts:233-235):
\* pids of tracked processes differ, so exactly the i-th element goes
removeByPid(pings, i) ==
    [j \in 1..(Len(pings) - 1) |-> IF j < i THEN pings[j] ELSE pings[j + 1]]

\* the 'close' handler of pingBluetoothDevice (index.ts:231-236): the i-th
\* tracked process has ended, by itself or by the signal of stop(), and its
\* streams are closed
ProcClose(i) ==
    /\ i \in DOMAIN runningPings
    /\ runningPings' = removeByPid(runningPings, i)
    /\ liveProcs' = liveProcs (-) SetToBag({runningPings[i].address})
    /\ emitted' = <<>>
    /\ ProbeFrame
    /\ UNCHANGED <<btDevicesPresent, reportFirstResult, fatal, run, lastPositive>>

\* the 'error' handler of pingBluetoothDevice (index.ts:216-219): rethrows
ProcError(i) ==
    /\ i \in DOMAIN runningPings
    /\ fatal' = TRUE
    /\ emitted' = <<>>
    /\ ProbeFrame
    /\ UNCHANGED <<btDevicesPresent, reportFirstResult, runningPings, run,
                   lastPositive, liveProcs>>

(* ---------------------------- specifications --------------------------- *)

\* the state after construction (index.ts:21-49)
Init ==
    /\ btDevicesToPing = <<>>
    /\ btDevicesPresent = <<>>
    /\ scanIntervalSecs = 15
    /\ isL2PingAvailable = FALSE
    /\ timer = "undefined"
    /\ reportFirstResult = TRUE
    /\ runningPings = <<>>
    /\ l2pingOptions = [count |-> 1, timeoutSecs |-> 5]
    /\ otherTimers = 0
    /\ pendingWhich = 0
    /\ fatal = FALSE
    /\ emitted = <<>>
    /\ stopped = FALSE
    /\ run = "new"
    /\ lastPositive = {}
    /\ liveProcs = EmptyBag

\* the arguments of start()
StartArgs == {Undefined, Some(TRUE), Some(FALSE)}

PendingTimers == otherTimers + (IF timer = "pending" THEN 1 ELSE 0)

\* room among the tracked processes for one more scan
RoomForScan == Len(runningPings) + Len(btDevicesToPing) <= MaxProcs

\* The whole machine. The registry is driven through the states <<>>, <<ac>>
\* and <<ac, bd>>; RegistrySpec below gives it arbitrary arguments. Nothing
\* runs once a handler has thrown.
Next ==
    \/ ~fatal /\ AddDevices(Some(<< <<"a", "c">>, <<"B", "D">> >>))
    \/ ~fatal /\ RemoveDevices(Some(<< <<"B", "d">> >>))
    \/ \E arg \in {Undefined, Some(<< <<"A", "c">> >>)} : ~fatal /\ SetDevices(arg)
    \/ \E arg \in StartArgs :
           /\ ~fatal
           /\ RoomForScan
           /\ PendingTimers + pendingWhich < MaxChains
           /\ Start(arg)
    \/ \E ok \in BOOLEAN : ~fatal /\ (ok => RoomForScan) /\ WhichExit(ok)
    \/ ~fatal /\ WhichError
    \/ \E own \in BOOLEAN : ~fatal /\ RoomForScan /\ TimerFire(own)
    \/ ~fatal /\ Stop
    \/ \E i \in 1..MaxProcs, isPresent \in BOOLEAN : ~fatal /\ StreamData(i, isPresent)
    \/ \E i \in 1..MaxProcs : ~fatal /\ ProcClose(i)
    \/ \E i \in 1..MaxProcs : ~fatal /\ ProcError(i)

Spec == Init /\ [][Next]_vars

\* The registry alone, under arbitrary arguments: MAC addresses of two
\* characters in mixed case, arrays with duplicates.
SeqsUpTo(S, n) == UNION {[1..k -> S] : k \in 0..n}

Macs == {<<"a", "c">>, <<"A", "c">>, <<"A", "C">>, <<"b", "d">>, <<"B", "d">>,
         <<"a", "d">>, <<"b", "c">>, <<"b", "e">>}
RegistryArgs == {Undefined} \cup {Some(arr) : arr \in SeqsUpTo(Macs, MaxArgLen)}

RegistryNext ==
    \/ \E arg \in RegistryArgs :
           Len(addDevices(btDevicesToPing, arg)) <= MaxDevices /\ AddDevices(arg)
    \/ \E arg \in RegistryArgs : RemoveDevices(arg)
    \/ \E arg \in RegistryArgs :
           Len(setDevices(btDevicesToPing, arg)) <= MaxDevices /\ SetDevices(arg)

RegistrySpec == Init /\ [][RegistryNext]_vars

\* The whole machine again, with the two setters of the configuration. One
\* address is registered and removed, and one scan chain less and one process
\* less are alive at once than under Next.
OptionFields == {Undefined, Some(0), Some(2), Some(-1)}
PingOptionArgs ==
    {Undefined} \cup {Some([count |-> c, timeoutSecs |-> t]) :
                          c \in OptionFields, t \in OptionFields}
IntervalArgs == {Undefined, Some(30)}

ConfigRoom == Len(runningPings) + Len(btDevicesToPing) < MaxProcs

ConfigNext ==
    \/ ~fatal /\ AddDevices(Some(<< <<"A", "c">> >>))
    \/ ~fatal /\ RemoveDevices(Some(<< <<"a", "C">> >>))
    \/ ~fatal /\ SetDevices(Undefined)
    \/ \E arg \in PingOptionArgs : ~fatal /\ SetPingOptions(arg)
    \/ \E secs \in IntervalArgs : ~fatal /\ SetIntervalSeconds(secs)
    \/ \E arg \in StartArgs :
           /\ ~fatal
           /\ ConfigRoom
           /\ PendingTimers + pendingWhich < MaxChains - 1
           /\ Start(arg)
    \/ \E ok \in BOOLEAN : ~fatal /\ (ok => ConfigRoom) /\ WhichExit(ok)
    \/ ~fatal /\ WhichError
    \/ \E own \in BOOLEAN : ~fatal /\ ConfigRoom /\ TimerFire(own)
    \/ ~fatal /\ Stop
    \/ \E i \in 1..MaxProcs, isPresent \in BOOLEAN : ~fatal /\ StreamData(i, isPresent)
    \/ \E i \in 1..MaxProcs : ~fatal /\ ProcClose(i)
    \/ \E i \in 1..MaxProcs : ~fatal /\ ProcError(i)

ConfigSpec == Init /\ [][ConfigNext]_vars

\* The whole machine under the scheduling of the event loop: a timer that is
\* due fires, and an l2ping process, which sends l2pingOptions.count pings
\* and waits at most l2pingOptions.timeoutSecs for each, ends and closes.
Tick == ~fatal /\ RoomForScan /\ \E own \in BOOLEAN : TimerFire(own)
Close == ~fatal /\ \E i \in 1..MaxProcs : ProcClose(i)

\* Next with one scan chain less alive at once
LiveNext ==
    \/ ~fatal /\ AddDevices(Some(<< <<"a", "c">>, <<"B", "D">> >>))
    \/ ~fatal /\ RemoveDevices(Some(<< <<"B", "d">> >>))
    \/ \E arg \in {Undefined, Some(<< <<"A", "c">> >>)} : ~fatal /\ SetDevices(arg)
    \/ \E arg \in StartArgs :
           /\ ~fatal
           /\ RoomForScan
           /\ PendingTimers + pendingWhich < MaxChains - 1
           /\ Start(arg)
    \/ \E ok \in BOOLEAN : ~fatal /\ (ok => RoomForScan) /\ WhichExit(ok)
    \/ ~fatal /\ WhichError
    \/ Tick
    \/ ~fatal /\ Stop
    \/ \E i \in 1..MaxProcs, isPresent \in BOOLEAN : ~fatal /\ StreamData(i, isPresent)
    \/ Close
    \/ \E i \in 1..MaxProcs : ~fatal /\ ProcError(i)

LiveSpec == Init /\ [][LiveNext]_vars /\ WF_vars(Tick) /\ WF_vars(Close)

(* -------------------------------- claims ------------------------------- *)

\* a step that processed a probe result: onPingResult always emits 'ping-result'
ResultStep == emitted' # <<>>
\* the result it processed
TheResult == emitted'[1].result
\* the aggregate events among the events ev of a step
Aggregate(ev) == SelectSeq(ev, LAMBDA e : e.type \in {"present", "not-present"})
Emits(ev, type, address) ==
    \E k \in DOMAIN ev : ev[k].type = type /\ ev[k].address = address
WasPresent == btDevicesPresent # <<>>
IsPresentNow == btDevicesPresent' # <<>>

\* C1: for every result processed by onPingResult, 'present'(address) is
\* emitted iff the presence list is non-empty afterwards and (it was empty
\* before or reportFirstResult); 'not-present'(address) iff it is empty
\* afterwards and (it was non-empty before or reportFirstResult); a result
\* produces at most one aggregate event, and only for its own address.
C1_AggregateEvents ==
    [][ResultStep =>
          /\ Emits(emitted', "present", TheResult.address)
                <=> (IsPresentNow /\ (~WasPresent \/ reportFirstResult))
          /\ Emits(emitted', "not-present", TheResult.address)
                <=> (~IsPresentNow /\ (WasPresent \/ reportFirstResult))
          /\ Len(Aggregate(emitted')) <= 1
          /\ \A k \in DOMAIN Aggregate(emitted') :
                 Aggregate(emitted')[k].address = TheResult.address]_vars

\* C1 witness: a negative result left the list empty and 'not-present' was emitted
C1_Witness ==
    /\ Len(emitted) = 2
    /\ ~emitted[1].result.isPresent
    /\ emitted[2].type = "not-present"
    /\ btDevicesPresent = <<>>

\* C2 as stated: 'present' is emitted only on a change from an empty to a
\* non-empty presence list, and a positive result that finds another device
\* already present emits no aggregate event.
C2_PresentOnlyOnRisingEdge ==
    [][ResultStep =>
          /\ Emits(emitted', "present", TheResult.address)
                => (~WasPresent /\ IsPresentNow)
          /\ (/\ TheResult.isPresent
              /\ \E k \in DOMAIN btDevicesPresent :
                     btDevicesPresent[k] # TheResult.address)
                => Aggregate(emitted') = <<>>]_vars

\* C2 amended: 'present' is emitted only when the presence list is non-empty
\* after the result and either it was empty before or the first-result latch
\* was still set; a positive result that finds another device already present
\* emits no aggregate event once the latch is consumed.
C2_PresentOnRisingEdgeOrLatch ==
    [][ResultStep =>
          /\ Emits(emitted', "present", TheResult.address)
                => (IsPresentNow /\ (~WasPresent \/ reportFirstResult))
          /\ (/\ TheResult.isPresent
              /\ ~reportFirstResult
              /\ \E k \in DOMAIN btDevicesPresent :
                     btDevicesPresent[k] # TheResult.address)
                => Aggregate(emitted') = <<>>]_vars

\* C2 witness: a second device reported present and no aggregate event followed
C2_Witness ==
    /\ Len(emitted) = 1
    /\ emitted[1].result.isPresent
    /\ Len(btDevicesPresent) = 2

\* C3: after any processed result the latch is false, and a result that is not
\* the first one since start() emits an aggregate event only if the emptiness
\* of the presence list changed.
C3_LatchOneShot ==
    [][ResultStep =>
          /\ reportFirstResult' = FALSE
          /\ (run = "consumed" /\ Aggregate(emitted') # <<>>)
                => (WasPresent # IsPresentNow)]_vars

\* C3 witness: a later negative result with nothing present emitted no
\* aggregate event
C3_Witness ==
    /\ run = "consumed"
    /\ ~reportFirstResult
    /\ Len(emitted) = 1
    /\ ~emitted[1].result.isPresent
    /\ btDevicesPresent = <<>>

\* C4 as stated: the first result processed after a start() without argument
\* always emits 'present' or 'not-present'.
C4_DefaultStartReportsFirstResult ==
    [][(run = "default" /\ ResultStep) => Aggregate(emitted') # <<>>]_vars

\* C5 as stated: a probe that has reported a result reports no second one.
C5_AtMostOneResultPerProbe ==
    [][\A i \in 1..MaxProcs, isPresent \in BOOLEAN :
          StreamData(i, isPresent) => ~runningPings[i].reported]_vars

\* C6 as stated: a probe whose process closes, and whose handle leaves the
\* pool, has reported a result.
C6_AtLeastOneResultPerProbe ==
    [][\A i \in 1..MaxProcs : ProcClose(i) => runningPings[i].reported]_vars

\* C7 as stated: between stop() and the next start() no scan runs: no timer
\* fires into scanForAllDevices and no availability check goes on to scan.
C7_NoScanAfterStop ==
    [][stopped => ~(WhichExit(TRUE) \/ \E own \in BOOLEAN : TimerFire(own))]_vars

\* C8 as stated: after stop() while scanning the pool is empty.
C8_PoolEmptyAfterStop ==
    [][(timer = "pending" /\ Stop) => runningPings' = <<>>]_vars

\* C8 amended: stop() while scanning marks every tracked handle killed and
\* leaves them all in the pool; a handle leaves the pool only when its
\* process closes, one handle per 'close'.
C8_StopKillsCloseRemoves ==
    [][/\ (timer # "undefined" /\ Stop) =>
             /\ Len(runningPings') = Len(runningPings)
             /\ \A i \in DOMAIN runningPings :
                    /\ runningPings'[i].killed
                    /\ runningPings'[i].address = runningPings[i].address
       /\ Len(runningPings') < Len(runningPings) =>
             \E i \in DOMAIN runningPings :
                 runningPings' = removeByPid(runningPings, i)]_vars

\* C8 witness: stopped, with two handles still tracked and both killed
C8_Witness ==
    /\ stopped
    /\ timer = "cleared"
    /\ Len(runningPings) = 2
    /\ \A i \in DOMAIN runningPings : runningPings[i].killed

\* C9: a failed availability lookup (non-zero exit, launch error) is fatal:
\* it does not mark l2ping available, dispatches no probe and arms no timer,
\* and nothing runs afterwards.
C9_FailedLookupIsFatal ==
    [][/\ (WhichExit(FALSE) \/ WhichError) =>
             /\ fatal'
             /\ isL2PingAvailable' => isL2PingAvailable
             /\ runningPings' = runningPings
             /\ timer' = timer
             /\ otherTimers' = otherTimers
       /\ fatal => UNCHANGED vars]_vars

\* C9 witness: the lookup of the only start() failed
C9_Witness ==
    /\ fatal
    /\ ~isL2PingAvailable
    /\ timer = "undefined"
    /\ pendingWhich = 0
    /\ runningPings = <<>>

UpperChars == {"A", "B", "C", "D"}
IsLowerCased(mac) == \A k \in DOMAIN mac : mac[k] \notin UpperChars
NoDuplicates(arr) == \A j, k \in DOMAIN arr : arr[j] = arr[k] => j = k

\* C10: the registry never holds an identifier twice nor one with an upper-case
\* character, and adding identifiers that are all present already, up to
\* case, leaves it unchanged.
C10_RegistryNormalised ==
    /\ NoDuplicates(btDevicesToPing)
    /\ \A k \in DOMAIN btDevicesToPing : IsLowerCased(btDevicesToPing[k])
    /\ \A arg \in RegistryArgs :
           (/\ IsDefined(arg)
            /\ \A mac \in Range(ValueOf(arg)) :
                   \E k \in DOMAIN btDevicesToPing :
                       /\ Len(btDevicesToPing[k]) = Len(mac)
                       /\ \A c \in DOMAIN mac :
                              \/ btDevicesToPing[k][c] = mac[c]
                              \/ <<mac[c], btDevicesToPing[k][c]>> \in
                                    {<<"A", "a">>, <<"B", "b">>, <<"C", "c">>, <<"D", "d">>})
             => addDevices(btDevicesToPing, arg) = btDevicesToPing

\* C10 witness: the registry holds several identifiers
C10_Witness == Len(btDevicesToPing) >= 3


\* mac and low are the same identifier up to case, and low is lower-cased
IsLoweredFrom(low, mac) ==
    /\ Len(low) = Len(mac)
    /\ IsLowerCased(low)
    /\ \A c \in DOMAIN mac :
           \/ low[c] = mac[c]
           \/ <<mac[c], low[c]>> \in
                 {<<"A", "a">>, <<"B", "b">>, <<"C", "c">>, <<"D", "d">>}
\* S is the set of the lower-cased elements of the array arr
IsLoweredSetOf(S, arr) ==
    /\ \A low \in S : \E k \in DOMAIN arr : IsLoweredFrom(low, arr[k])
    /\ \A k \in DOMAIN arr : \E low \in S : IsLoweredFrom(low, arr[k])

\* C11: in every state of the registry and for every argument array, the
\* registry after setDevices(X) is, as a set, the lower-cased elements of X;
\* after removeDevices(Y) it is the previous content minus the lower-cased
\* elements of Y; after addDevices(Z) the previous content united with the
\* lower-cased elements of Z.
C11_RegistryIsASet ==
    \A arg \in RegistryArgs :
        IsDefined(arg) =>
            LET arr == ValueOf(arg)
                old == Range(btDevicesToPing)
                added == Range(addDevices(btDevicesToPing, arg))
            IN /\ IsLoweredSetOf(Range(setDevices(btDevicesToPing, arg)), arr)
               /\ Range(removeDevices(btDevicesToPing, arg))
                      = {low \in old : \A k \in DOMAIN arr : ~IsLoweredFrom(low, arr[k])}
               /\ old \subseteq added
               /\ IsLoweredSetOf(added \ old,
                                 SelectSeq(arr, LAMBDA m :
                                     \A low \in old : ~IsLoweredFrom(low, m)))

\* C11 witness: a registry of two identifiers, the second-listed one first
C11_Witness == btDevicesToPing = << <<"b", "d">>, <<"a", "c">> >>

\* C12: setPingOptions(options) replaces the whole options struct: whatever
\* was stored before, count becomes options.count when that field is present
\* and truthy and 1 otherwise, timeoutSecs becomes options.timeoutSecs when
\* present and truthy and 5 otherwise, never the value stored before; and the
\* stored options are a struct of two numbers in every reachable state.
C12_OptionsDefaultSubstitution ==
    /\ DOMAIN l2pingOptions = {"count", "timeoutSecs"}
    /\ l2pingOptions.count \in Int
    /\ l2pingOptions.timeoutSecs \in Int
    /\ \A c, t \in OptionFields :
           LET new == setPingOptions([count |-> c, timeoutSecs |-> t])
           IN  /\ DOMAIN new = {"count", "timeoutSecs"}
               /\ new.count = (IF c # Undefined /\ c[1] # 0 THEN c[1] ELSE 1)
               /\ new.timeoutSecs = (IF t # Undefined /\ t[1] # 0 THEN t[1] ELSE 5)

\* both fields were replaced by values that are not the defaults
C12_Witness == l2pingOptions = [count |-> 2, timeoutSecs |-> -1]

\* the events of a type among the events ev of a step
OfType(ev, type) == SelectSeq(ev, LAMBDA e : e.type = type)

\* C13: every result delivered to onPingResult, whether or not it changes
\* collective presence, produces exactly one 'ping-result' event, carrying
\* that result; the event is emitted while the presence list is still the one
\* from before the result, and ahead of every 'present' / 'not-present' event
\* of the same result, which are emitted on the updated list.
C13_PingResultFirst ==
    [][\A i \in 1..MaxProcs, isPresent \in BOOLEAN :
          (ResultStep /\ StreamData(i, isPresent)) =>
              /\ Len(OfType(emitted', "ping-result")) = 1
              /\ emitted'[1].type = "ping-result"
              /\ emitted'[1].result = [address |-> runningPings[i].address,
                                       isPresent |-> isPresent]
              /\ emitted'[1].seen = btDevicesPresent
              /\ \A k \in 2..Len(emitted') :
                     /\ emitted'[k].type \in {"present", "not-present"}
                     /\ emitted'[k].seen = btDevicesPresent']_vars

\* C13 witness: a positive result extended a non-empty list and emitted only
\* 'ping-result', on the list from before
C13_Witness ==
    /\ Len(emitted) = 1
    /\ emitted[1].type = "ping-result"
    /\ Len(emitted[1].seen) = 1
    /\ Len(btDevicesPresent) = 2

\* the results a probe of a registered or once registered address can deliver
Results == {[address |-> a, isPresent |-> b] :
               a \in {<<"a", "c">>, <<"b", "d">>}, b \in BOOLEAN}

\* C14: in every reachable state the presence list holds exactly the
\* addresses whose most recently processed result was positive, each once (so
\* none that never had a result), and from there two results of different
\* addresses lead to the same set of addresses in either order.
C14_PresenceIsLastPositive ==
    /\ Range(btDevicesPresent) = lastPositive
    /\ NoDuplicates(btDevicesPresent)
    /\ \A r1, r2 \in Results :
           r1.address # r2.address =>
               Range(updatePresent(updatePresent(btDevicesPresent, r1), r2))
                   = Range(updatePresent(updatePresent(btDevicesPresent, r2), r1))

\* C14 witness: of two present devices one has just left on a negative result
C14_Witness ==
    /\ Len(emitted) = 1
    /\ ~emitted[1].result.isPresent
    /\ Len(emitted[1].seen) = 2
    /\ Len(btDevicesPresent) = 1

\* C15: the presence list changes only when a probe result is processed:
\* addDevices, removeDevices, setDevices, setPingOptions, setIntervalSeconds,
\* start, stop, a scan tick, the close of a probe process and every other step
\* that is not a 'data' handler leave it as it was, so it survives stop()
\* followed by start().
C15_OnlyResultsChangePresence ==
    [][(\/ \E arg \in {Undefined, Some(<< <<"A", "c">> >>), Some(<< <<"a", "C">> >>)} :
              AddDevices(arg) \/ RemoveDevices(arg) \/ SetDevices(arg)
        \/ \E arg \in PingOptionArgs : SetPingOptions(arg)
        \/ \E secs \in IntervalArgs : SetIntervalSeconds(secs)
        \/ \E arg \in StartArgs : Start(arg)
        \/ Stop
        \/ \E own \in BOOLEAN : TimerFire(own)
        \/ \E i \in 1..MaxProcs : ProcClose(i)
        \/ \A i \in 1..MaxProcs, isPresent \in BOOLEAN : ~StreamData(i, isPresent))
          => btDevicesPresent' = btDevicesPresent]_vars

\* C15 witness: start() was called again, after stop(), with a device present
\* and no result processed since
C15_Witness ==
    /\ run \in {"default", "explicit"}
    /\ btDevicesPresent # <<>>

\* C16 as stated: in every reachable state at most one scan timer is pending,
\* and none is pending after stop() until start() is called again.
C16_SinglePendingTimer ==
    /\ PendingTimers <= 1
    /\ stopped => PendingTimers = 0

\* C17: a scan tick leaves the probes of earlier ticks in the pool as they
\* are, without waiting for them, and appends one fresh probe handle for each
\* address the registry holds at that moment, in registry order (none when it
\* is empty); then, empty or not, it has re-armed: this.timer is pending, and
\* as many timers are pending as before the one of this tick fired.
C17_TickDispatchesAndRearms ==
    [][\A own \in BOOLEAN :
          TimerFire(own) =>
              /\ Len(runningPings') = Len(runningPings) + Len(btDevicesToPing)
              /\ \A k \in DOMAIN runningPings : runningPings'[k] = runningPings[k]
              /\ \A k \in DOMAIN btDevicesToPing :
                     runningPings'[Len(runningPings) + k]
                         = [address |-> btDevicesToPing[k],
                            killed |-> FALSE, reported |-> FALSE]
              /\ timer' = "pending"
              /\ PendingTimers' = PendingTimers]_vars

\* C17 witness: a tick dispatched a second probe of an address whose earlier
\* probe is still running, and re-armed
C17_Witness ==
    /\ Len(runningPings) = 2
    /\ runningPings[1].address = runningPings[2].address
    /\ timer = "pending"
    /\ otherTimers = 0
    /\ pendingWhich = 0

\* C19: in every reachable state the pool holds exactly the handles of the
\* probe processes spawned and not closed yet, one handle for each: a spawn
\* adds the handle, the close of the process removes it, reported or not,
\* killed or not, and no handle stays behind a closed process.
C19_PoolIsLiveProbes ==
    bagOf([i \in DOMAIN runningPings |-> runningPings[i].address]) = liveProcs

\* C19 witness: of two probes of stop()ped scans one has closed without a
\* result and its handle is gone, the other is still tracked
C19_Witness ==
    /\ stopped
    /\ Len(runningPings) = 1
    /\ runningPings[1].killed
    /\ ~runningPings[1].reported
    /\ btDevicesToPing = << <<"a", "c">>, <<"b", "d">> >>
    /\ pendingWhich = 0
    /\ otherTimers = 0
    /\ run = "default"

\* C20: stop() does not suppress the results of probes in flight: between
\* stop() and the next start(), every probe still in the pool, killed or not,
\* can deliver a positive or a negative result, and the result is processed
\* like any other: 'ping-result' is emitted and the presence list updated,
\* still before any start().
C20_StopKeepsInFlightResults ==
    (stopped /\ ~fatal) =>
        \A i \in DOMAIN runningPings, isPresent \in BOOLEAN :
            ENABLED (/\ StreamData(i, isPresent)
                     /\ emitted'[1].type = "ping-result"
                     /\ emitted'[1].result.address = runningPings[i].address
                     /\ btDevicesPresent'
                            = updatePresent(btDevicesPresent,
                                            [address |-> runningPings[i].address,
                                             isPresent |-> isPresent])
                     /\ stopped')

\* C20 witness: after stop() a killed probe delivered a positive result, which
\* put its address on the list and emitted 'ping-result' and 'present'
C20_Witness ==
    /\ stopped
    /\ Len(emitted) = 2
    /\ emitted[1].type = "ping-result"
    /\ emitted[2].type = "present"
    /\ emitted[1].seen = <<>>
    /\ btDevicesPresent = <<emitted[1].result.address>>
    /\ \E i \in DOMAIN runningPings :
           /\ runningPings[i].killed
           /\ runningPings[i].reported
           /\ runningPings[i].address = emitted[1].result.address

\* a scan tick that appends a fresh probe handle of address d to the pool
Dispatch(d) ==
    /\ \E own \in BOOLEAN : TimerFire(own)
    /\ \E k \in (Len(runningPings) + 1)..Len(runningPings') :
           runningPings'[k].address = d

\* C18: if from some point on a scan timer is pending, stop() is not in
\* effect, no handler has thrown and a device stays in the registry, then
\* under fair firing of the timers scan ticks dispatch a probe of that device
\* again and again, whatever its earlier probes reported and whether or not
\* they have ended.
C18_ScanLoopLive ==
    \A d \in {<<"a", "c">>, <<"b", "d">>} :
        <>[](/\ PendingTimers > 0
             /\ ~stopped
             /\ ~fatal
             /\ d \in Range(btDevicesToPing))
            => []<><<Dispatch(d)>>_vars

\* C18 witness: a device whose earlier probe has reported and is still
\* running has been probed again
C18_Witness ==
    /\ Len(runningPings) = 2
    /\ runningPings[1].address = runningPings[2].address
    /\ runningPings[1].reported
    /\ ~runningPings[2].reported
    /\ ~stopped
    /\ timer = "pending"

\* address d is on the presence list, has been removed from the registry and
\* has no probe in the pool, and the step just taken processed a negative
\* result of a device still registered, after which no registered device is on
\* the list
StaleAndOthersNegative(d) ==
    /\ d \in Range(btDevicesPresent)
    /\ d \notin Range(btDevicesToPing)
    /\ \A i \in DOMAIN runningPings : runningPings[i].address # d
    /\ btDevicesToPing # <<>>
    /\ Range(btDevicesToPing) \cap Range(btDevicesPresent) = {}
    /\ emitted # <<>>
    /\ ~emitted[1].result.isPresent
    /\ emitted[1].result.address \in Range(btDevicesToPing)

\* C21 as stated: once a device on the presence list has been removed from
\* the registry, has no probe in flight, and the devices still registered have
\* reported negative results, a 'not-present' event is eventually emitted,
\* unless by then the device is registered again, the registry is emptied, a
\* registered device is found present, stop() is called or a handler throws.
C21_StaleEntryIrrelevant ==
    \A d \in {<<"a", "c">>, <<"b", "d">>} :
        StaleAndOthersNegative(d)
            ~> (\/ \E k \in DOMAIN emitted : emitted[k].type = "not-present"
                \/ d \in Range(btDevicesToPing)
                \/ btDevicesToPing = <<>>
                \/ Range(btDevicesToPing) \cap Range(btDevicesPresent) # {}
                \/ stopped
                \/ fatal)

\* C22 as stated: a zero or negative count or timeoutSecs given to
\* setPingOptions is what getPingOptions() returns for that field afterwards.
C22_ZeroAndNegativeAccepted ==
    [][\A c, t \in OptionFields :
          SetPingOptions(Some([count |-> c, timeoutSecs |-> t])) =>
              /\ (c # Undefined /\ c[1] <= 0) => getPingOptions'.count = c[1]
              /\ (t # Undefined /\ t[1] <= 0) => getPingOptions'.timeoutSecs = t[1]]_vars

\* C22 amended: a negative count or timeoutSecs given to setPingOptions is
\* what getPingOptions() returns for that field afterwards; a zero is not
\* accepted: getPingOptions() returns the default for it, 1 for count and 5
\* for timeoutSecs.
C22_NegativeAcceptedZeroDefaulted ==
    [][\A c, t \in OptionFields :
          SetPingOptions(Some([count |-> c, timeoutSecs |-> t])) =>
              /\ (c # Undefined /\ c[1] < 0) => getPingOptions'.count = c[1]
              /\ (t # Undefined /\ t[1] < 0) => getPingOptions'.timeoutSecs = t[1]
              /\ (c # Undefined /\ c[1] = 0) => getPingOptions'.count = 1
              /\ (t # Undefined /\ t[1] = 0) => getPingOptions'.timeoutSecs = 5]_vars

\* C22 witness: a negative count was stored as given, next to the default
\* timeout
C22_Witness == getPingOptions = [count |-> -1, timeoutSecs |-> 5]

====
